---- MODULE Spec2Model ----
(***************************************************************************)
(* MotorKnob driver (src/motorknob_driver.c).                              *)
(*                                                                         *)
(* Two parts are modelled:                                                 *)
(*   - the sysfs registry: setup_sysfs / destory_sysfs, one step per       *)
(*     kernel call, over a small model of kobjects (reference counts,      *)
(*     parent links) and of the sysfs files visible below them;            *)
(*   - the register codec: motorknob_write / motorknob_read and the seven  *)
(*     attribute handlers, over 8-bit bytes and 16-bit words.              *)
(***************************************************************************)
EXTENDS Integers, Sequences, FiniteSets, TLC

(***************************************************************************)
(* Bounds of the model.                                                    *)
(***************************************************************************)
\* kobjects that can ever be allocated (two per setup_sysfs call)
MaxKobj == 4
\* calls remembered in hist (the most recent ones)
HistLen == 3
\* i2c clients that get attached to the driver, one at a time
MaxClients == 2

(***************************************************************************)
(* Program constants.                                                      *)
(***************************************************************************)
ENOMEM == 12
EINVAL == 22

VARIABLES
    motorknob_kobj,          \* static struct kobject *motorknob_kobj (0 = NULL)
    motorknob_profile_kobj,  \* static struct kobject *motorknob_profile_kobj
    kref,                    \* kernel: reference count of every kobject (0 = not allocated or freed)
    parent,                  \* kernel: parent kobject of every kobject (0 = none)
    nextKobj,                \* kernel: the next kobject to be allocated
    files,                   \* kernel: the sysfs files visible, <<directory kobject, name>>
    pc,                      \* which function is running: idle, setup, rollback, destroy, crashed
    idx,                     \* the next statement of the running function
    failAt,                  \* the step of setup_sysfs that failed (0 = none)
    ret,                     \* return value of the last setup_sysfs call
    log,                     \* the kernel calls made by the running (or last) call, with their outcome
    hist,                    \* the most recent calls, oldest first
    user_buffer,             \* the bytes a writer supplies (count = its length)
    devreg,                  \* device: the word held by each of the four registers
    calls,                   \* the handler invocations made so far, each with its bus transaction
    motorknob_client,        \* static struct i2c_client *motorknob_client (0 = NULL)
    attached,                \* i2c core: the client being probed or bound to the driver (0 = none)
    probe_ret                \* return value of the last my_i2c_probe call

regVars == <<motorknob_kobj, motorknob_profile_kobj, kref, parent, nextKobj,
             files, pc, idx, failAt, ret, log, hist>>

codecVars == <<user_buffer, devreg, calls>>

lifeVars == <<motorknob_client, attached, probe_ret>>

vars == <<regVars, codecVars, lifeVars>>

NULL == 0
Kobj == 1..MaxKobj
Clients == 1..MaxClients

(***************************************************************************)
(* The straight-line code of setup_sysfs and destory_sysfs, as the list of *)
(* kernel calls each path makes.  h is the handle the call is made on      *)
(* ("root" = motorknob_kobj, "child" = motorknob_profile_kobj).            *)
(***************************************************************************)
Create(h, par) == [op |-> "create", h |-> h, arg |-> par]
Reg(h, name)   == [op |-> "reg",    h |-> h, arg |-> name]
Unreg(h, name) == [op |-> "unreg",  h |-> h, arg |-> name]
Put(h)         == [op |-> "put",    h |-> h, arg |-> ""]

\* the four attributes: name and the container they are created in
detent_attr    == [name |-> "detents",        h |-> "child"]
start_pos_attr == [name |-> "start_position", h |-> "child"]
end_pos_attr   == [name |-> "end_position",   h |-> "child"]
position_attr  == [name |-> "position",       h |-> "root"]

\* setup_sysfs with position registered in the profile directory
setup_steps_PositionInProfile ==
    << Create("root", "NULL"),
       Create("child", "root"),
       Reg("child", "detents"),
       Reg("child", "start_position"),
       Reg("child", "end_position"),
       Reg("child", "position") >>

\* setup_sysfs registering start_position before detents
setup_steps_StartFirst ==
    << Create("root", "NULL"),
       Create("child", "root"),
       Reg("child", "start_position"),
       Reg("child", "detents"),
       Reg("child", "end_position"),
       Reg("root", "position") >>

\* setup_sysfs, lines 138..175: the six steps in program order
setup_steps ==
    << Create("root", "NULL"),
       Create("child", "root"),
       Reg(detent_attr.h, detent_attr.name),
       Reg(start_pos_attr.h, start_pos_attr.name),
       Reg(end_pos_attr.h, end_pos_attr.name),
       Reg(position_attr.h, position_attr.name) >>

\* rollback with the kobject_put of the root missing where the child creation fails
rollback_NoPutRoot(k) ==
    CASE k = 1 -> << >>
      [] k = 2 -> << >>
      [] k = 3 -> << Put("root"), Put("child") >>
      [] k = 4 -> << Unreg("child", "detents"), Put("child"), Put("root") >>
      [] k = 5 -> << Unreg("child", "detents"), Unreg("child", "start_position"),
                     Put("child"), Put("root") >>
      [] k = 6 -> << Unreg("child", "detents"), Unreg("child", "start_position"),
                     Unreg("child", "end_position"), Put("child"), Put("root") >>

\* setup_sysfs: the statements of the if-body of step k, before return -ENOMEM
rollback(k) ==
    CASE k = 1 -> << >>
      [] k = 2 -> << Put("root") >>
      [] k = 3 -> << Put("root"), Put("child") >>
      [] k = 4 -> << Unreg("child", "detents"), Put("child"), Put("root") >>
      [] k = 5 -> << Unreg("child", "detents"), Unreg("child", "start_position"),
                     Put("child"), Put("root") >>
      [] k = 6 -> << Unreg("child", "detents"), Unreg("child", "start_position"),
                     Unreg("child", "end_position"), Put("child"), Put("root") >>

\* destory_sysfs putting the root before the child
destroy_steps_RootFirst ==
    << Unreg("child", "detents"),
       Unreg("child", "start_position"),
       Unreg("child", "end_position"),
       Unreg("root", "position"),
       Put("root"),
       Put("child") >>

\* destory_sysfs, lines 195..201
destroy_steps ==
    << Unreg("child", "detents"),
       Unreg("child", "start_position"),
       Unreg("child", "end_position"),
       Unreg("root", "position"),
       Put("child"),
       Put("root") >>

(***************************************************************************)
(* The kernel calls.                                                       *)
(***************************************************************************)
Handle(h) == IF h = "root" THEN motorknob_kobj ELSE motorknob_profile_kobj

Live(k) == k # NULL /\ kref[k] > 0

\* kobject_put on a live kobject: drop one reference; at zero the kobject is
\* freed and drops the reference it holds on its parent
RECURSIVE KrefAfterPut(_, _)
KrefAfterPut(kr, k) ==
    IF k = NULL \/ kr[k] = 0 THEN kr
    ELSE LET kr1 == [kr EXCEPT ![k] = @ - 1]
         IN  IF kr1[k] = 0 THEN KrefAfterPut(kr1, parent[k]) ELSE kr1

\* the outcomes a kernel call can have in the current state
\*   ok    the call did what it is for
\*   fail  a creation or registration failed
\*   noent sysfs_remove_file of a file that does not exist: nothing happens
\*   null  kobject_put(NULL): nothing happens
\*   uaf   the call used a freed kobject and went on
\*   oops  the call dereferenced NULL or a freed kobject and the kernel stopped the caller
Outcomes(o) ==
    LET k == Handle(o.h) IN
    CASE o.op = "create" -> {"ok", "fail"}
      [] o.op = "reg"    -> {"ok", "fail"}
      [] o.op = "unreg"  -> IF k = NULL THEN {"oops"}
                            ELSE IF kref[k] = 0 THEN {"uaf", "oops"}
                            ELSE IF <<k, o.arg>> \in files THEN {"ok"} ELSE {"noent"}
      [] o.op = "put"    -> IF k = NULL THEN {"null"}
                            ELSE IF kref[k] = 0 THEN {"uaf", "oops"}
                            ELSE {"ok"}

\* one kernel call with outcome r: its effect on the handles and on the kernel
KernelCall(o, r) ==
    LET k == Handle(o.h) IN
    /\ log' = Append(log, [op |-> o.op, h |-> o.h, arg |-> o.arg, res |-> r,
                           k |-> IF o.op = "create"
                                 THEN (IF r = "ok" THEN nextKobj ELSE NULL)
                                 ELSE k])
    /\ CASE o.op = "create" /\ r = "ok" ->
              LET p == IF o.arg = "NULL" THEN NULL ELSE Handle(o.arg) IN
              /\ kref' = [j \in Kobj |-> IF j = nextKobj THEN 1
                                         ELSE IF j = p THEN kref[j] + 1
                                         ELSE kref[j]]
              /\ parent' = [parent EXCEPT ![nextKobj] = p]
              /\ nextKobj' = nextKobj + 1
              /\ IF o.h = "root"
                 THEN motorknob_kobj' = nextKobj /\ UNCHANGED motorknob_profile_kobj
                 ELSE motorknob_profile_kobj' = nextKobj /\ UNCHANGED motorknob_kobj
              /\ UNCHANGED files
         [] o.op = "create" /\ r = "fail" ->
              /\ IF o.h = "root"
                 THEN motorknob_kobj' = NULL /\ UNCHANGED motorknob_profile_kobj
                 ELSE motorknob_profile_kobj' = NULL /\ UNCHANGED motorknob_kobj
              /\ UNCHANGED <<kref, parent, nextKobj, files>>
         [] o.op = "reg" /\ r = "ok" ->
              /\ files' = files \cup {<<k, o.arg>>}
              /\ UNCHANGED <<motorknob_kobj, motorknob_profile_kobj, kref, parent, nextKobj>>
         [] o.op = "unreg" /\ r = "ok" ->
              /\ files' = files \ {<<k, o.arg>>}
              /\ UNCHANGED <<motorknob_kobj, motorknob_profile_kobj, kref, parent, nextKobj>>
         [] o.op = "put" /\ r = "ok" ->
              /\ kref' = KrefAfterPut(kref, k)
              /\ files' = {f \in files : kref'[f[1]] > 0}
              /\ UNCHANGED <<motorknob_kobj, motorknob_profile_kobj, parent, nextKobj>>
         [] OTHER ->
              UNCHANGED <<motorknob_kobj, motorknob_profile_kobj, kref, parent,
                          nextKobj, files>>

Remember(h, c) ==
    LET s == Append(h, c)
    IN  IF Len(s) > HistLen THEN Tail(s) ELSE s

(***************************************************************************)
(* setup_sysfs                                                             *)
(***************************************************************************)
\* the caller enters setup_sysfs; the binding lifecycle calls it only while
\* nothing is published
setup_sysfs_call ==
    /\ pc = "idle"
    /\ ~Live(motorknob_kobj)
    /\ nextKobj + 1 <= MaxKobj
    /\ pc' = "setup"
    /\ idx' = 1
    /\ failAt' = 0
    /\ log' = << >>
    /\ hist' = Remember(hist, "publish")
    /\ UNCHANGED <<motorknob_kobj, motorknob_profile_kobj, kref, parent, nextKobj, files, ret>>
    /\ UNCHANGED codecVars

\* the next creation or registration of setup_sysfs
setup_step ==
    /\ pc = "setup"
    /\ idx <= Len(setup_steps)
    /\ \E r \in Outcomes(setup_steps[idx]) :
          /\ KernelCall(setup_steps[idx], r)
          /\ IF r = "ok"
             THEN /\ idx' = idx + 1
                  /\ UNCHANGED <<pc, failAt>>
             ELSE /\ pc' = "rollback"
                  /\ failAt' = idx
                  /\ idx' = 1
    /\ UNCHANGED <<ret, hist>>
    /\ UNCHANGED codecVars
    /\ UNCHANGED lifeVars

\* the next statement of the failing branch
rollback_step ==
    /\ pc = "rollback"
    /\ idx <= Len(rollback(failAt))
    /\ \E r \in Outcomes(rollback(failAt)[idx]) :
          /\ KernelCall(rollback(failAt)[idx], r)
          /\ IF r = "oops"
             THEN pc' = "crashed" /\ UNCHANGED idx
             ELSE idx' = idx + 1 /\ UNCHANGED pc
    /\ UNCHANGED <<failAt, ret, hist>>
    /\ UNCHANGED codecVars
    /\ UNCHANGED lifeVars

\* setup_sysfs giving up on the failing registration without undoing anything
setup_return_NoRollback ==
    /\ \/ pc = "setup" /\ idx > Len(setup_steps)
       \/ pc = "rollback"
    /\ ret' = IF pc = "rollback" THEN -ENOMEM ELSE 0
    /\ hist' = [hist EXCEPT ![Len(hist)] =
                   IF pc = "rollback" THEN "publish_fail" ELSE "publish_ok"]
    /\ pc' = "idle"
    /\ UNCHANGED <<motorknob_kobj, motorknob_profile_kobj, kref, parent, nextKobj,
                   files, idx, failAt, log>>
    /\ UNCHANGED codecVars

\* value returned by setup_sysfs: 0 after the sixth step, -ENOMEM from a failing branch
setup_result(failed) == IF failed THEN -ENOMEM ELSE 0

setup_return ==
    /\ \/ pc = "setup" /\ idx > Len(setup_steps)
       \/ pc = "rollback" /\ idx > Len(rollback(failAt))
    /\ ret' = setup_result(pc = "rollback")
    /\ hist' = [hist EXCEPT ![Len(hist)] =
                   IF pc = "rollback" THEN "publish_fail" ELSE "publish_ok"]
    /\ pc' = "idle"
    /\ UNCHANGED <<motorknob_kobj, motorknob_profile_kobj, kref, parent, nextKobj,
                   files, idx, failAt, log>>
    /\ UNCHANGED codecVars

(***************************************************************************)
(* destory_sysfs                                                           *)
(***************************************************************************)
destory_sysfs_call ==
    /\ pc = "idle"
    /\ pc' = "destroy"
    /\ idx' = 1
    /\ log' = << >>
    /\ hist' = Remember(hist, "teardown")
    /\ UNCHANGED <<motorknob_kobj, motorknob_profile_kobj, kref, parent, nextKobj,
                   files, failAt, ret>>
    /\ UNCHANGED codecVars

destroy_step ==
    /\ pc = "destroy"
    /\ idx <= Len(destroy_steps)
    /\ \E r \in Outcomes(destroy_steps[idx]) :
          /\ KernelCall(destroy_steps[idx], r)
          /\ IF r = "oops"
             THEN pc' = "crashed" /\ UNCHANGED idx
             ELSE idx' = idx + 1 /\ UNCHANGED pc
    /\ UNCHANGED <<failAt, ret, hist>>
    /\ UNCHANGED codecVars
    /\ UNCHANGED lifeVars

destroy_return ==
    /\ pc = "destroy"
    /\ idx > Len(destroy_steps)
    /\ pc' = "idle"
    /\ UNCHANGED <<motorknob_kobj, motorknob_profile_kobj, kref, parent, nextKobj,
                   files, idx, failAt, ret, log, hist>>
    /\ UNCHANGED codecVars

(***************************************************************************)
(* my_i2c_probe and my_i2c_remove: the only callers of setup_sysfs and     *)
(* destory_sysfs.                                                          *)
(***************************************************************************)
\* my_i2c_probe that never sets motorknob_client
my_i2c_probe_call_NoClient ==
    /\ \E c \in Clients : attached' = c
    /\ UNCHANGED <<motorknob_client, probe_ret>>
    /\ setup_sysfs_call

\* my_i2c_probe(client), lines 214..222: motorknob_client = client, then
\* setup_sysfs is entered; the client is valid from here on
my_i2c_probe_call ==
    /\ \E c \in Clients :
          /\ motorknob_client' = c
          /\ attached' = c
    /\ UNCHANGED probe_ret
    /\ setup_sysfs_call

\* my_i2c_probe returning 0 whatever setup_sysfs returned
my_i2c_probe_result_Ignored(sysfs_setup_result) == 0

\* lines 222..235: a negative result of setup_sysfs is returned as it is, else 0
my_i2c_probe_result(sysfs_setup_result) ==
    IF sysfs_setup_result < 0 THEN sysfs_setup_result ELSE 0

\* setup_sysfs returns into my_i2c_probe, which returns; a failed probe
\* leaves the client unbound
my_i2c_probe_return ==
    /\ setup_return
    /\ probe_ret' = my_i2c_probe_result(ret')
    /\ attached' = IF my_i2c_probe_result(ret') < 0 THEN NULL ELSE attached
    /\ UNCHANGED motorknob_client

\* my_i2c_remove(client), lines 241..244: destory_sysfs is entered
my_i2c_remove_call ==
    /\ destory_sysfs_call
    /\ UNCHANGED lifeVars

\* destory_sysfs returns into my_i2c_remove, which returns: the client is detached
my_i2c_remove_return ==
    /\ destroy_return
    /\ attached' = NULL
    /\ UNCHANGED <<motorknob_client, probe_ret>>

(***************************************************************************)
(* The registry specification.                                             *)
(***************************************************************************)
RegistryInit ==
    /\ motorknob_kobj = NULL
    /\ motorknob_profile_kobj = NULL
    /\ kref = [j \in Kobj |-> 0]
    /\ parent = [j \in Kobj |-> NULL]
    /\ nextKobj = 1
    /\ files = {}
    /\ pc = "idle"
    /\ idx = 1
    /\ failAt = 0
    /\ ret = 0
    /\ log = << >>
    /\ hist = << >>

\* no writer, no handler invocation, all device registers zero
CodecIdle ==
    /\ user_buffer = << >>
    /\ devreg = [s \in 0..3 |-> 0]
    /\ calls = << >>

\* no client has been probed
LifeInit ==
    /\ motorknob_client = NULL
    /\ attached = NULL
    /\ probe_ret = 0

Init == RegistryInit /\ CodecIdle /\ LifeInit

Next ==
    \/ my_i2c_probe_call
    \/ setup_step
    \/ rollback_step
    \/ my_i2c_probe_return
    \/ my_i2c_remove_call
    \/ destroy_step
    \/ my_i2c_remove_return

Spec == Init /\ [][Next]_vars

(***************************************************************************)
(* Properties of the registry.                                             *)
(***************************************************************************)
LastCall == IF Len(hist) = 0 THEN "none" ELSE hist[Len(hist)]

\* the n most recent calls, oldest first (<< >> when fewer were made)
LastCalls(n) == IF Len(hist) < n THEN << >> ELSE SubSeq(hist, Len(hist) - n + 1, Len(hist))

\* setup_sysfs has returned and nothing was called since
PublishReturned == pc = "idle" /\ LastCall \in {"publish_ok", "publish_fail"}

\* the kobjects the running (or last) call created
CreatedInCall == {log[i].k : i \in {j \in DOMAIN log : log[j].op = "create" /\ log[j].res = "ok"}}

Visible == Cardinality(files)

\* the call used a NULL or freed container
TouchedReleased == \E i \in DOMAIN log : log[i].res \in {"uaf", "oops"}

\* C1: when setup_sysfs returns failure, whichever of the six steps failed, no
\* attribute file is left and every kobject the call created has been freed.
C1_PublishAllOrNothing ==
    (PublishReturned /\ ret < 0) =>
        /\ files = {}
        /\ \A k \in CreatedInCall : kref[k] = 0
        /\ failAt \in 1..6

\* C1 witness: the last registration (position) failed, after two containers
\* and three files had been created, and the call has returned
C1_Witness ==
    /\ PublishReturned /\ ret < 0
    /\ failAt = 6
    /\ Cardinality(CreatedInCall) = 2

\* C2 as stated: in every state, inside the calls too, 0 or 4 files are visible.
C2_AllOrNoneAlways == Visible \in {0, 4}

\* C2 amended: whenever no call of setup_sysfs or destory_sysfs is running,
\* 0 or 4 attribute files are visible.
C2_AllOrNoneBetweenCalls == pc = "idle" => Visible \in {0, 4}

\* C2 witness: between two calls, all four files are visible
C2_Witness == pc = "idle" /\ Visible = 4 /\ LastCall = "publish_ok"

\* C3: a second destory_sysfs right after a first one that followed a successful
\* setup_sysfs removes nothing, puts nothing and uses no released container.
C3_TeardownTwiceIsNoOp ==
    LastCalls(3) = <<"publish_ok", "teardown", "teardown">> =>
        /\ pc # "crashed"
        /\ ~TouchedReleased
        /\ \A i \in DOMAIN log : log[i].res \in {"noent", "null"}

\* C4: destory_sysfs after a failed setup_sysfs, or as the very first call, does
\* not fail, uses no released container and leaves no file visible.
C4_TeardownAfterFailedPublish ==
    (LastCalls(2) = <<"publish_fail", "teardown">> \/ hist = <<"teardown">>) =>
        /\ pc # "crashed"
        /\ ~TouchedReleased
        /\ files = {}

\* the root container exists when log[i] is made, by the calls of this call
RootExistsAt(i) ==
    \E j \in 1..(i - 1) :
        /\ log[j].op = "create" /\ log[j].h = "root" /\ log[j].res = "ok"
        /\ \A m \in (j + 1)..(i - 1) : ~(log[m].op = "put" /\ log[m].h = "root")

\* C5: within every call, the child container is created only while the root
\* exists, and the root is never released (kobject_put) before the child is.
C5_ContainerOrder ==
    /\ \A i \in DOMAIN log :
          (log[i].op = "create" /\ log[i].h = "child") => RootExistsAt(i)
    /\ \A i, j \in DOMAIN log :
          (i < j /\ log[i].op = "put" /\ log[i].h = "root")
              => ~(log[j].op = "put" /\ log[j].h = "child")

\* the rollback C6 describes for a failure of step k (3..6): the files
\* registered so far, most recent first, then the child, then the root
ReverseRollback(k) ==
    LET names == <<"detents", "start_position", "end_position">>
        n     == k - 3
    IN  [i \in 1..n |-> [op |-> "unreg", h |-> "child", arg |-> names[n + 1 - i]]]
        \o << [op |-> "put", h |-> "child", arg |-> ""],
              [op |-> "put", h |-> "root", arg |-> ""] >>

\* the calls the last call made after its failing step, without their outcome
CleanupDone ==
    [i \in 1..(Len(log) - failAt) |->
        [op |-> log[failAt + i].op, h |-> log[failAt + i].h, arg |-> log[failAt + i].arg]]

\* C6: when the k-th registration fails, setup_sysfs unregisters the files
\* registered so far in reverse order, then puts the child, then the root, and
\* only then returns the failure.
C6_RollbackSequence ==
    (PublishReturned /\ ret < 0 /\ failAt >= 3) => CleanupDone = ReverseRollback(failAt)

\* the six steps of a successful publish, as they appear in the log
SixStepsOk ==
    /\ Len(log) = 6
    /\ \A i \in 1..6 : log[i].res = "ok"
    /\ log[1].op = "create" /\ log[1].h = "root"
    /\ log[2].op = "create" /\ log[2].h = "child"
    /\ \A i \in 3..6 : log[i].op = "reg"
    /\ <<log[3].arg, log[4].arg, log[5].arg, log[6].arg>>
         = <<"detents", "start_position", "end_position", "position">>

\* C7: setup_sysfs returns 0 exactly when both creations and all four
\* registrations succeeded; then both containers are live, the child below the
\* root, and exactly detents, start_position, end_position (in the child) and
\* position (in the root) are registered.
C7_SuccessIffAllSteps ==
    PublishReturned =>
        /\ (ret = 0) <=> SixStepsOk
        /\ (ret = 0) =>
              /\ Live(motorknob_kobj) /\ Live(motorknob_profile_kobj)
              /\ motorknob_kobj # motorknob_profile_kobj
              /\ parent[motorknob_profile_kobj] = motorknob_kobj
              /\ files = { <<motorknob_profile_kobj, "detents">>,
                           <<motorknob_profile_kobj, "start_position">>,
                           <<motorknob_profile_kobj, "end_position">>,
                           <<motorknob_kobj, "position">> }

\* C7 witness: setup_sysfs has returned 0
C7_Witness == PublishReturned /\ ret = 0 /\ Visible = 4

\* a kernel call of the log without its outcome
CallAt(i) == [op |-> log[i].op, h |-> log[i].h, arg |-> log[i].arg]

\* the last call started is a setup_sysfs (running or returned)
InOrAfterPublish == LastCall \in {"publish", "publish_ok", "publish_fail"}

\* the order C14 gives for the steps of publish
PublishOrder ==
    << [op |-> "create", h |-> "root",  arg |-> "NULL"],
       [op |-> "create", h |-> "child", arg |-> "root"],
       [op |-> "reg",    h |-> "child", arg |-> "detents"],
       [op |-> "reg",    h |-> "child", arg |-> "start_position"],
       [op |-> "reg",    h |-> "child", arg |-> "end_position"],
       [op |-> "reg",    h |-> "root",  arg |-> "position"] >>

\* C14: setup_sysfs makes its creations and registrations in the order root,
\* child, detents, start_position, end_position, position, each only after all
\* earlier ones succeeded; when the root creation fails it makes no other call.
C14_StepOrder ==
    InOrAfterPublish =>
        /\ \A i \in DOMAIN log :
              log[i].op \in {"create", "reg"} =>
                  /\ i <= 6
                  /\ CallAt(i) = PublishOrder[i]
                  /\ \A j \in 1..(i - 1) :
                        log[j].op \in {"create", "reg"} /\ log[j].res = "ok"
        /\ (Len(log) >= 1 /\ log[1].res = "fail") => Len(log) = 1

\* C14 witness: the root creation failed, setup_sysfs returned, one call was made
C14_Witness ==
    /\ PublishReturned
    /\ Len(log) = 1
    /\ log[1].op = "create" /\ log[1].h = "root" /\ log[1].res = "fail"

\* C15: after a failed setup_sysfs both handles are NULL and no file is
\* published: no handle to a released container is kept.
C15_FailedPublishRevertsState ==
    (PublishReturned /\ ret < 0) =>
        /\ motorknob_kobj = NULL
        /\ motorknob_profile_kobj = NULL
        /\ files = {}

\* the order C16 gives for the calls of teardown
TeardownOrder ==
    << [op |-> "unreg", h |-> "child", arg |-> "detents"],
       [op |-> "unreg", h |-> "child", arg |-> "start_position"],
       [op |-> "unreg", h |-> "child", arg |-> "end_position"],
       [op |-> "unreg", h |-> "root",  arg |-> "position"],
       [op |-> "put",   h |-> "child", arg |-> ""],
       [op |-> "put",   h |-> "root",  arg |-> ""] >>

\* C16: destory_sysfs after a successful setup_sysfs removes the four files,
\* then puts the child, then the root; when it returns no file is visible and
\* each container was released once and is freed.
C16_TeardownSequence ==
    LastCalls(2) = <<"publish_ok", "teardown">> =>
        /\ Len(log) <= 6
        /\ \A i \in DOMAIN log : CallAt(i) = TeardownOrder[i] /\ log[i].res = "ok"
        /\ pc # "crashed"
        /\ pc = "idle" =>
              /\ Len(log) = 6
              /\ files = {}
              /\ kref[motorknob_kobj] = 0 /\ kref[motorknob_profile_kobj] = 0
              /\ log[5].k = motorknob_profile_kobj /\ log[6].k = motorknob_kobj

\* C16 witness: the teardown that followed a successful publish has returned
C16_Witness ==
    /\ LastCalls(2) = <<"publish_ok", "teardown">>
    /\ pc = "idle"
    /\ Len(log) = 6

\* some step of the last call failed
StepFailed == \E i \in DOMAIN log : log[i].res = "fail"

\* C17: whichever step failed, setup_sysfs returns -ENOMEM and my_i2c_probe
\* returns the same; when no step failed both return 0.
C17_SingleErrorCode ==
    PublishReturned =>
        /\ StepFailed => (ret = -12 /\ probe_ret = -12)
        /\ ~StepFailed => (ret = 0 /\ probe_ret = 0)

\* C17 witness: the registration of start_position failed and the probe returned -ENOMEM
C17_Witness ==
    /\ PublishReturned
    /\ failAt = 4
    /\ probe_ret = -12

(***************************************************************************)
(* The register codec.                                                     *)
(***************************************************************************)
\* Command structure, lines 14..23
WRITE_REQUEST    == 128
DATA_START_POS   == 0
DATA_END_POS     == 1
DATA_DETENTS     == 2
DATA_CURRENT_POS == 3

\* longest payload a writer supplies
MaxCount == 3

Byte == 0..255

\* C's | and ^ on non-negative ints
RECURSIVE BitOr(_, _)
BitOr(a, b) ==
    IF a = 0 THEN b
    ELSE IF b = 0 THEN a
    ELSE 2 * BitOr(a \div 2, b \div 2) + (IF a % 2 = 1 \/ b % 2 = 1 THEN 1 ELSE 0)

RECURSIVE BitXor(_, _)
BitXor(a, b) ==
    IF a = 0 THEN b
    ELSE IF b = 0 THEN a
    ELSE 2 * BitXor(a \div 2, b \div 2) + (IF a % 2 = b % 2 THEN 0 ELSE 1)

WRITE_START_POS == BitOr(WRITE_REQUEST, DATA_START_POS)
WRITE_END_POS   == BitOr(WRITE_REQUEST, DATA_END_POS)
WRITE_DETENTS   == BitOr(WRITE_REQUEST, DATA_DETENTS)

\* conversions to the fixed-width types of the code
U8(x)  == x % 256
U16(x) == x % 65536

\* char with the sign bit set read as a negative int (a build with signed char)
CharValue_Signed(b) == IF b >= 128 THEN b - 256 ELSE b

\* the int value of a char holding byte b: the kernel is built with
\* -funsigned-char, so a char is 0..255
CharValue(b) == b

\* lines 44..45: uint16_t word = ((uint16_t) user_buffer[0]) << 8; word ^= user_buffer[1];
\* (the ^ is done on ints and the result is cut to 16 bits by the assignment)
BuildWord(buf) ==
    LET word0 == U16(U16(CharValue(buf[1])) * 256)
    IN  BitXor(word0, U16(CharValue(buf[2])))

\* motorknob_write without the length check; a missing byte reads as the
\* terminating 0 of the buffer
motorknob_write_NoLengthCheck(reg, buf, count, status) ==
    LET padded == buf \o <<0, 0>>
        word   == BuildWord(padded)
    IN  [ret |-> IF status < 0 THEN status ELSE count,
         tx  |-> << [kind |-> "write", reg |-> reg, word |-> word, result |-> status] >>,
         out |-> << >>]

\* motorknob_write reporting the two bytes it used instead of count
motorknob_write_ReturnsTwo(reg, buf, count, status) ==
    IF count < 2
    THEN [ret |-> -EINVAL, tx |-> << >>, out |-> << >>]
    ELSE LET word == BuildWord(buf)
         IN  [ret |-> IF status < 0 THEN status ELSE 2,
              tx  |-> << [kind |-> "write", reg |-> reg, word |-> word, result |-> status] >>,
              out |-> << >>]

\* motorknob_write(reg, user_buffer, count), lines 37..56; status is what
\* i2c_smbus_write_word_data answers if it is called
motorknob_write(reg, buf, count, status) ==
    IF count < 2
    THEN [ret |-> -EINVAL, tx |-> << >>, out |-> << >>]
    ELSE LET word == BuildWord(buf)
         IN  [ret |-> IF status < 0 THEN status ELSE count,
              tx  |-> << [kind |-> "write", reg |-> reg, word |-> word, result |-> status] >>,
              out |-> << >>]

\* motorknob_read storing the high byte first
motorknob_read_HighFirst(reg, result) ==
    IF result < 0
    THEN [ret |-> result,
          tx  |-> << [kind |-> "read", reg |-> reg, word |-> 0, result |-> result] >>,
          out |-> << >>]
    ELSE [ret |-> 2,
          tx  |-> << [kind |-> "read", reg |-> reg, word |-> 0, result |-> result] >>,
          out |-> << U8(result \div 256), U8(result) >>]

\* motorknob_read trying a second time when the bus fails
motorknob_read_Retry(reg, result) ==
    IF result < 0
    THEN [ret |-> result,
          tx  |-> << [kind |-> "read", reg |-> reg, word |-> 0, result |-> result],
                     [kind |-> "read", reg |-> reg, word |-> 0, result |-> result] >>,
          out |-> << >>]
    ELSE [ret |-> 2,
          tx  |-> << [kind |-> "read", reg |-> reg, word |-> 0, result |-> result] >>,
          out |-> << U8(result), U8(result \div 256) >>]

\* motorknob_read without the early return: the bytes are stored even when the bus failed
motorknob_read_StoresOnFailure(reg, result) ==
    [ret |-> IF result < 0 THEN result ELSE 2,
     tx  |-> << [kind |-> "read", reg |-> reg, word |-> 0, result |-> result] >>,
     out |-> << U8(result), U8(result \div 256) >>]

\* motorknob_read(reg, user_buffer), lines 62..74; result is what
\* i2c_smbus_read_word_data answers; out is what is stored in user_buffer
motorknob_read(reg, result) ==
    IF result < 0
    THEN [ret |-> result,
          tx  |-> << [kind |-> "read", reg |-> reg, word |-> 0, result |-> result] >>,
          out |-> << >>]
    ELSE [ret |-> 2,
          tx  |-> << [kind |-> "read", reg |-> reg, word |-> 0, result |-> result] >>,
          out |-> << U8(result), U8(result \div 256) >>]

\* the handlers of the four attributes, lines 79..123
WriteHandlers == {"write_detents", "write_start_position", "write_end_position"}
ReadHandlers  == {"read_detents", "read_start_position", "read_end_position", "read_position"}

\* the write handlers passing the bare register address
write_reg_NoFlag(h) ==
    CASE h = "write_detents"        -> DATA_DETENTS
      [] h = "write_start_position" -> DATA_START_POS
      [] h = "write_end_position"   -> DATA_END_POS

\* write_detents addressing the current position register
write_reg_DetentsAsPosition(h) ==
    CASE h = "write_detents"        -> BitOr(WRITE_REQUEST, DATA_CURRENT_POS)
      [] h = "write_start_position" -> WRITE_START_POS
      [] h = "write_end_position"   -> WRITE_END_POS

write_reg(h) ==
    CASE h = "write_detents"        -> WRITE_DETENTS
      [] h = "write_start_position" -> WRITE_START_POS
      [] h = "write_end_position"   -> WRITE_END_POS

read_reg(h) ==
    CASE h = "read_detents"        -> DATA_DETENTS
      [] h = "read_start_position" -> DATA_START_POS
      [] h = "read_end_position"   -> DATA_END_POS
      [] h = "read_position"       -> DATA_CURRENT_POS

\* the show and store function of each attribute, lines 126..129 ("NULL" = none)
attr_show(name) ==
    CASE name = "detents"        -> "read_detents"
      [] name = "start_position" -> "read_start_position"
      [] name = "end_position"   -> "read_end_position"
      [] name = "position"       -> "read_position"

attr_store(name) ==
    CASE name = "detents"        -> "write_detents"
      [] name = "start_position" -> "write_start_position"
      [] name = "end_position"   -> "write_end_position"
      [] name = "position"       -> "NULL"

(***************************************************************************)
(* The bus and the device behind it: a failing transaction answers a       *)
(* negative errno and changes nothing; a write that succeeds stores the    *)
(* word in the addressed register, a read that succeeds answers the word   *)
(* the register holds.                                                     *)
(***************************************************************************)
BusErrors == {-5, -6}

\* the register a bus address selects (the write flag masked out)
Selector(reg) == reg % WRITE_REQUEST

\* the inputs of the codec: every pair of bytes, and every payload of up to
\* MaxCount bytes over TailBytes
TailBytes == {0, 1, 128, 255}
RECURSIVE SeqsUpTo(_, _)
SeqsUpTo(S, n) ==
    IF n = 0 THEN { << >> }
    ELSE LET shorter == SeqsUpTo(S, n - 1)
         IN  shorter \cup { Append(p, b) : p \in {q \in shorter : Len(q) = n - 1}, b \in S }
SmallPayloads == SeqsUpTo(TailBytes, MaxCount)
Payloads == { <<b0, b1>> : b0 \in Byte, b1 \in Byte } \cup SmallPayloads

\* bus answers tried for a payload: failures are tried on the small payloads
WriteStatuses == IF user_buffer \in SmallPayloads THEN {0} \cup BusErrors ELSE {0}

\* one of the three write handlers is invoked with user_buffer
write_call ==
    /\ calls = << >>
    /\ \E h \in WriteHandlers, status \in WriteStatuses :
          LET c == motorknob_write(write_reg(h), user_buffer, Len(user_buffer), status)
          IN  /\ calls' = Append(calls, [handler |-> h, count |-> Len(user_buffer),
                                         ret |-> c.ret, tx |-> c.tx, out |-> c.out])
              /\ devreg' = IF c.tx # << >> /\ status >= 0
                           THEN [devreg EXCEPT ![Selector(c.tx[1].reg)] = c.tx[1].word]
                           ELSE devreg
    /\ UNCHANGED user_buffer
    /\ UNCHANGED regVars
    /\ UNCHANGED lifeVars

\* the read handlers tried: all four on the small payloads, otherwise the one
\* of the register just written
ReadChoices ==
    IF user_buffer \in SmallPayloads THEN ReadHandlers
    ELSE { h \in ReadHandlers : calls # << >> /\ calls[1].tx # << >>
                                /\ read_reg(h) = Selector(calls[1].tx[1].reg) }

ReadAnswers(h) ==
    IF user_buffer \in SmallPayloads THEN {devreg[read_reg(h)]} \cup BusErrors
    ELSE {devreg[read_reg(h)]}

\* one of the four read handlers is invoked
read_call ==
    /\ Len(calls) <= 1
    /\ \E h \in ReadChoices :
          \E result \in ReadAnswers(h) :
             LET c == motorknob_read(read_reg(h), result)
             IN  calls' = Append(calls, [handler |-> h, count |-> 0,
                                         ret |-> c.ret, tx |-> c.tx, out |-> c.out])
    /\ calls # << >> => calls[1].handler \in WriteHandlers
    /\ UNCHANGED <<user_buffer, devreg>>
    /\ UNCHANGED regVars
    /\ UNCHANGED lifeVars

CodecInit ==
    /\ RegistryInit
    /\ LifeInit
    /\ user_buffer \in Payloads
    /\ devreg = [s \in 0..3 |-> 0]
    /\ calls = << >>

CodecNext ==
    \/ write_call
    \/ read_call

SpecCodec == CodecInit /\ [][CodecNext]_vars

(***************************************************************************)
(* The whole driver: probe and remove, and the handlers as sysfs invokes   *)
(* them, which it does for a file from the moment the file is visible,     *)
(* also while setup_sysfs or destory_sysfs is running.  calls holds the    *)
(* last invocation, with the client it used and the client then bound.     *)
(* The device here answers a read with any of DriverWords (the knob moves  *)
(* on its own), or the bus fails.                                          *)
(***************************************************************************)
\* the payloads written through the files
DriverPayloads == { <<1>>, <<18, 52, 3>> }
\* the words the device answers
DriverWords == {0, 4660}

\* a write to a visible file that has a store function
dispatch_store ==
    /\ \E f \in files :
          /\ attr_store(f[2]) # "NULL"
          /\ \E p \in DriverPayloads, status \in {0} \cup BusErrors :
                LET h == attr_store(f[2])
                    c == motorknob_write(write_reg(h), p, Len(p), status)
                IN  calls' = << [handler |-> h, count |-> Len(p), ret |-> c.ret,
                                 tx |-> c.tx, out |-> c.out,
                                 client |-> motorknob_client, bound |-> attached] >>
    /\ UNCHANGED <<user_buffer, devreg>>
    /\ UNCHANGED regVars
    /\ UNCHANGED lifeVars

\* a read of a visible file
dispatch_show ==
    /\ \E f \in files :
          LET h == attr_show(f[2]) IN
          \E result \in DriverWords \cup BusErrors :
             LET c == motorknob_read(read_reg(h), result)
             IN  calls' = << [handler |-> h, count |-> 0, ret |-> c.ret,
                             tx |-> c.tx, out |-> c.out,
                             client |-> motorknob_client, bound |-> attached] >>
    /\ UNCHANGED <<user_buffer, devreg>>
    /\ UNCHANGED regVars
    /\ UNCHANGED lifeVars

DriverNext ==
    \/ my_i2c_probe_call
    \/ setup_step
    \/ rollback_step
    \/ my_i2c_probe_return
    \/ my_i2c_remove_call
    \/ destroy_step
    \/ my_i2c_remove_return
    \/ dispatch_store
    \/ dispatch_show

SpecDriver == Init /\ [][DriverNext]_vars

(***************************************************************************)
(* Properties of the codec.                                                *)
(***************************************************************************)
WriteCalls == {i \in DOMAIN calls : calls[i].handler \in WriteHandlers}
ReadCalls  == {i \in DOMAIN calls : calls[i].handler \in ReadHandlers}

\* bit i of x, and the exclusive or of two 16-bit values taken bit by bit
BitAt(x, i) == (x \div (2 ^ i)) % 2
RECURSIVE XorBelow(_, _, _)
XorBelow(a, b, n) ==
    IF n = 0 THEN 0
    ELSE XorBelow(a, b, n - 1) + ((BitAt(a, n - 1) + BitAt(b, n - 1)) % 2) * (2 ^ (n - 1))
Xor16(a, b) == XorBelow(a % 65536, b % 65536, 16)

\* C8: a write of two or more bytes puts exactly one word on the bus,
\* (byte0 << 8) XOR byte1 of the unsigned bytes (which is byte0 * 256 + byte1,
\* the two having no bit in common), whatever bytes follow.
C8_WriteWord ==
    \A i \in WriteCalls :
        calls[i].count >= 2 =>
            /\ Len(calls[i].tx) = 1
            /\ calls[i].tx[1].kind = "write"
            /\ calls[i].tx[1].word = Xor16(user_buffer[1] * 256, user_buffer[2])
            /\ calls[i].tx[1].word = user_buffer[1] * 256 + user_buffer[2]

\* C8 witness: three bytes 0xFF 0x80 0x01 were written and 0xFF80 went to the bus
C8_Witness ==
    /\ user_buffer = <<255, 128, 1>>
    /\ \E i \in WriteCalls : calls[i].tx # << >> /\ calls[i].tx[1].word = 65408

\* C9: a write of fewer than two bytes returns -EINVAL and makes no bus
\* transaction, in each of the three write handlers.
C9_ShortWriteRejected ==
    \A i \in WriteCalls :
        calls[i].count < 2 =>
            /\ calls[i].ret = -EINVAL
            /\ calls[i].tx = << >>
            /\ devreg = [s \in 0..3 |-> 0]

\* C9 witness: write_end_position was given one byte
C9_Witness ==
    \E i \in WriteCalls :
        /\ calls[i].handler = "write_end_position"
        /\ calls[i].count = 1
        /\ calls[i].ret = -EINVAL

\* the read follows a successful write of the register it reads
ReadBack ==
    /\ Len(calls) = 2
    /\ calls[1].handler \in WriteHandlers /\ calls[1].ret >= 0
    /\ calls[2].handler \in ReadHandlers /\ calls[2].ret >= 0
    /\ read_reg(calls[2].handler) + WRITE_REQUEST = write_reg(calls[1].handler)

\* C10: a read the bus answers with r in 0..65535 returns 2 and stores
\* r mod 256 then r div 256; reading back a register written with [b0, b1]
\* from a device that keeps the word gives [b1, b0].
C10_ReadBytes ==
    /\ \A i \in ReadCalls :
          LET r == calls[i].tx[1].result IN
          r >= 0 =>
              /\ r \in 0..65535
              /\ calls[i].ret = 2
              /\ calls[i].out = << r % 256, r \div 256 >>
    /\ ReadBack => calls[2].out = << user_buffer[2], user_buffer[1] >>

\* C10 witness: [0x12, 0x34] was written to start_position and read back as [0x34, 0x12]
C10_Witness ==
    /\ ReadBack
    /\ user_buffer = <<18, 52>>
    /\ calls[1].handler = "write_start_position"
    /\ calls[2].out = <<52, 18>>

\* the attribute of a handler
attr_of(h) ==
    CASE h \in {"read_detents", "write_detents"}               -> "detents"
      [] h \in {"read_start_position", "write_start_position"} -> "start_position"
      [] h \in {"read_end_position", "write_end_position"}     -> "end_position"
      [] h = "read_position"                                   -> "position"

\* C11: a read goes to the bare selector (start 0, end 1, detents 2,
\* position 3), a write to the selector with the 0x80 flag (0x80, 0x81, 0x82);
\* the two addresses of one attribute differ by exactly 0x80.
C11_AddressDerivation ==
    /\ \A i \in ReadCalls :
          /\ calls[i].tx # << >>
          /\ calls[i].tx[1].reg =
                (CASE calls[i].handler = "read_start_position" -> 0
                   [] calls[i].handler = "read_end_position"   -> 1
                   [] calls[i].handler = "read_detents"        -> 2
                   [] calls[i].handler = "read_position"       -> 3)
    /\ \A i \in WriteCalls :
          calls[i].tx # << >> =>
              calls[i].tx[1].reg =
                (CASE calls[i].handler = "write_start_position" -> 128
                   [] calls[i].handler = "write_end_position"   -> 129
                   [] calls[i].handler = "write_detents"        -> 130)
    /\ \A i \in WriteCalls, j \in ReadCalls :
          (calls[i].tx # << >> /\ attr_of(calls[i].handler) = attr_of(calls[j].handler))
              => calls[i].tx[1].reg - calls[j].tx[1].reg = 128

\* C11 witness: detents was written at 0x82 and then read at 2
C11_Witness ==
    /\ Len(calls) = 2
    /\ calls[1].handler = "write_detents" /\ calls[1].tx # << >> /\ calls[1].tx[1].reg = 130
    /\ calls[2].handler = "read_detents" /\ calls[2].tx[1].reg = 2

\* C12: a write of n >= 2 bytes whose bus transaction succeeds returns n,
\* not the two bytes it used.
C12_WriteReturnsCount ==
    \A i \in WriteCalls :
        (calls[i].count >= 2 /\ calls[i].tx # << >> /\ calls[i].tx[1].result >= 0)
            => calls[i].ret = calls[i].count

\* C12 witness: three bytes were written, the bus accepted the word, 3 was returned
C12_Witness ==
    \E i \in WriteCalls :
        /\ calls[i].count = 3
        /\ calls[i].tx # << >> /\ calls[i].tx[1].result >= 0
        /\ calls[i].ret = 3

\* C13: a handler invocation makes at most one bus transaction, and when the
\* transaction answers a negative status the handler returns that status.
C13_NoRetryRawStatus ==
    \A i \in DOMAIN calls :
        /\ Len(calls[i].tx) <= 1
        /\ (calls[i].tx # << >> /\ calls[i].tx[1].result < 0)
              => calls[i].ret = calls[i].tx[1].result

\* C13 witness: a write failed with -5 and the read after it failed with -6,
\* each handing its status back after one transaction
C13_Witness ==
    /\ Len(calls) = 2
    /\ calls[1].handler \in WriteHandlers
    /\ Len(calls[1].tx) = 1 /\ calls[1].tx[1].result = -5 /\ calls[1].ret = -5
    /\ calls[2].handler \in ReadHandlers
    /\ Len(calls[2].tx) = 1 /\ calls[2].tx[1].result = -6 /\ calls[2].ret = -6

\* C18: while a file is visible motorknob_client is set and is the client
\* now bound, and every handler that went to the bus used the client bound
\* at that moment.
C18_ClientBoundWhileVisible ==
    /\ files # {} => (motorknob_client # NULL /\ motorknob_client = attached)
    /\ \A i \in DOMAIN calls :
          calls[i].tx # << >> =>
              (calls[i].client # NULL /\ calls[i].client = calls[i].bound)

\* C18 witness: client 2 is bound after client 1 was, its publish is being
\* rolled back with one file still visible, and a handler used client 2
C18_Witness ==
    /\ pc = "rollback"
    /\ Visible = 1
    /\ attached = 2
    /\ calls # << >> /\ calls[1].tx # << >> /\ calls[1].client = 2

\* C19: bus writes go to 0x80, 0x81 or 0x82 and never to 0x83, bus reads
\* to 0, 1, 2 or 3, and the position attribute has no store function.
C19_PositionReadOnly ==
    /\ \A i \in DOMAIN calls : \A j \in DOMAIN calls[i].tx :
          LET t == calls[i].tx[j] IN
          /\ t.kind = "write" => (t.reg \in {128, 129, 130} /\ t.reg # 131)
          /\ t.kind = "read"  => t.reg \in {0, 1, 2, 3}
          /\ t.kind = "write" <=> calls[i].handler \in WriteHandlers
    /\ attr_store("position") = "NULL"
    /\ \A i \in WriteCalls : attr_of(calls[i].handler) # "position"

\* C19 witness: with the position file visible, write_detents wrote at 0x82
C19_Witness ==
    /\ \E f \in files : f[2] = "position"
    /\ calls # << >>
    /\ calls[1].handler = "write_detents"
    /\ calls[1].tx # << >> /\ calls[1].tx[1].reg = 130

\* C20: a handler invocation leaves motorknob_kobj, motorknob_profile_kobj,
\* the visible files and motorknob_client as they were, and a read whose
\* bus transaction failed stored nothing in the user buffer.
C20_HandlersFrame ==
    [][ calls' # calls =>
          /\ motorknob_kobj' = motorknob_kobj
          /\ motorknob_profile_kobj' = motorknob_profile_kobj
          /\ files' = files
          /\ motorknob_client' = motorknob_client
          /\ \A i \in DOMAIN calls' :
                (calls'[i].handler \in ReadHandlers /\ calls'[i].ret < 0)
                    => calls'[i].out = << >> ]_vars

\* C20 witness: with all four files visible, read_position failed on the bus
\* and stored nothing
C20_Witness ==
    /\ Visible = 4
    /\ calls # << >>
    /\ calls[1].handler = "read_position"
    /\ calls[1].ret < 0
    /\ calls[1].out = << >>

====
